---- MODULE Spec2Model ----
(***************************************************************************)
(* ReservoirSamplingOp (caffe2/operators/reservoir_sampling.cc).           *)
(*                                                                         *)
(* The operator keeps, over repeated RunOnDevice calls, a reservoir of at  *)
(* most numToCollect_ rows (RESERVOIR), the count NUM_VISITED, and, when   *)
(* the object-id inputs are supplied, OBJECT_TO_POS_MAP and POS_TO_OBJECT. *)
(* One call is modelled as: Process (lines 22-89), one RowStep per loop    *)
(* iteration (lines 91-133), SanityCheck (lines 135-136).                  *)
(*                                                                         *)
(* A row's payload is modelled by the arrival index of the row in the      *)
(* whole stream (1, 2, ...), so that every block is told apart; 0 is the   *)
(* content of a slot no row has been copied into.                          *)
(***************************************************************************)
EXTENDS Integers, Sequences, FiniteSets

\* ---------------------------------------------------------------- bounds
MaxCapacity == 2      \* num_to_collect ranges over 1..MaxCapacity
MaxKey == 2           \* object ids a row may carry: 0..MaxKey
MaxBatch == 2         \* rows (and ids) of one batch: 0..MaxBatch
MaxRows == 4          \* rows reached by the loop over all calls

Keys == 0..MaxKey
Shapes == {1, 2}      \* row shapes (the dimensions after the first)

\* The stream of section 8's scenario; fed with num_to_collect = 2.
ScenarioKeys == <<1, 2, 3, 2, 4>>

Range(s) == {s[j] : j \in 1..Len(s)}
Min(a, b) == IF a < b THEN a ELSE b
KeyUniverse == Keys \cup Range(ScenarioKeys)

VARIABLES
  numToCollect,       \* numToCollect_
  tracking,           \* InputSize() > OBJECT_ID and the two index outputs exist
  output_dim0,        \* output->dim(0): rows of RESERVOIR
  output_shape,       \* row shape of RESERVOIR (0: none yet)
  output_data,        \* slot -> payload copied into it (0: none)
  num_visited,        \* *num_visited
  object_to_pos_map,  \* OBJECT_TO_POS_MAP: object id -> slot
  pos_to_object,      \* POS_TO_OBJECT: slot -> object id, for the slots assigned so far
  pc,                 \* "idle" between calls, "loop" inside the row loop
  num_entries,        \* dims[0] of DATA in the running call
  object_id,          \* OBJECT_ID of the running call
  i,                  \* loop index
  start_num_visited,  \* line 69
  num_new_entries,    \* line 50
  status,             \* outcome of the last call that returned
  script,             \* <<>>: the caller feeds any keys; else the keys it feeds, in order
  nrows,              \* history: rows reached by the loop so far, over all calls
  firstRow,           \* history: key -> arrival index of the first row carrying it (0: none)
  admitRow,           \* history: key -> arrival index of the last row carrying it that was copied
  dupSeen,            \* history: some row carried a key an earlier row carried
  absentRows,         \* history: rows reached while their key was not in the map
  draws               \* history: random draws made

opvars == <<numToCollect, tracking, output_dim0, output_shape, output_data,
            num_visited, object_to_pos_map, pos_to_object>>
callvars == <<pc, num_entries, object_id, i, start_num_visited, num_new_entries, status>>
histvars == <<script, nrows, firstRow, admitRow, dupSeen, absentRows, draws>>
vars == <<opvars, callvars, histvars>>

Slots == 0..(numToCollect - 1)
EmptyMap == [k \in {} |-> 0]

\* ------------------------------------------------------- MapType64To32
\* std::map::count
Count(m, k) == IF k \in DOMAIN m THEN 1 ELSE 0

\* std::map::erase(key)
Erase(m, k) == [x \in (DOMAIN m) \ {k} |-> m[x]]

\* std::map::emplace(key, value): no effect when the key is present
Emplace(m, k, v) ==
  IF k \in DOMAIN m THEN m ELSE [x \in (DOMAIN m) \cup {k} |-> IF x = k THEN v ELSE m[x]]

\* ------------------------------------------------------ countNewEntries
RECURSIVE CountAbsent(_, _)
CountAbsent(ids, m) ==
  IF ids = <<>> THEN 0
  ELSE (IF Count(m, Head(ids)) = 0 THEN 1 ELSE 0) + CountAbsent(Tail(ids), m)

countNewEntries(trk, n, ids, m) ==
  IF ~trk THEN n ELSE CountAbsent(ids, m)

\* ------------------------------------------------- pieces of RunOnDevice
\* lines 51-56: dim(0) of RESERVOIR after the up-front Resize
ResizedDim0Unclamped(cap, obs, nnew) == obs + nnew

ResizedDim0(cap, obs, nnew) ==
  IF obs < cap THEN Min(cap, obs + Min(nnew, cap)) ELSE obs

\* line 28: output->size() > 0 (rows times a non-empty row shape)
OutputInitializedByShape(dim0, shape) == shape # 0

OutputInitialized(dim0, shape) == dim0 > 0

\* line 67
CounterOkAlways(v) == TRUE

CounterOk(v) == v >= 0

\* lines 92-93: the row is already in the pool
AlreadyInPoolNever(trk, m, oid) == FALSE

AlreadyInPool(trk, m, oid) == trk /\ Count(m, oid) > 0

\* lines 97-110: the slot of a row, from the count v and the draw r (-1: discard)
TargetPosDraw(cap, v, r) == IF r >= cap THEN -1 ELSE r

TargetPosLate(cap, v, r) ==
  IF v + 1 < cap THEN v
  ELSE IF r >= cap THEN -1 ELSE r

TargetPos(cap, v, r) ==
  IF v < cap THEN v
  ELSE IF r >= cap THEN -1 ELSE r

\* lines 102-105: uniform over [0, v) instead of [0, v]
DrawSetExclusive(cap, v) == IF v < cap THEN {0} ELSE 0..(v - 1)

\* the values uniformDist(0, v) may return; no draw is made when v < cap
DrawSet(cap, v) == IF v < cap THEN {0} ELSE 0..v

\* line 132: the count after a row that was not skipped (pos < 0: discarded)
VisitedAfterWrittenOnly(v, pos) == IF pos < 0 THEN v ELSE v + 1

VisitedAfterFromPos(v, pos) == IF pos < 0 THEN v + 1 ELSE pos + 1

VisitedAfter(v, pos) == v + 1

\* line 124: the values pos_to_object_data[pos] may hold; an entry never
\* assigned holds any object id
OldOids(p2o, pos, oids) ==
  IF pos \in DOMAIN p2o THEN {p2o[pos]} ELSE oids

\* line 126
SetOwner(p2o, pos, oid) ==
  [s \in (DOMAIN p2o) \cup {pos} |-> IF s = pos THEN oid ELSE p2o[s]]

\* lines 127-128
BindMapNoErase(m, old_oid, new_oid, pos) == Emplace(m, new_oid, pos)

BindMapEraseNew(m, old_oid, new_oid, pos) == Emplace(Erase(m, new_oid), new_oid, pos)

BindMap(m, old_oid, new_oid, pos) == Emplace(Erase(m, old_oid), new_oid, pos)

\* lines 91-133 for rows v+1..n that are never skipped, with the draws d
\* (d[v]: the value drawn for the row reached at count v): the reservoir after
\* row n, from the reservoir res after row v
RECURSIVE FeedRows(_, _, _, _, _)
FeedRows(cap, n, d, v, res) ==
  IF v >= n THEN res
  ELSE LET r == IF v < cap THEN 0 ELSE d[v]
           pos == TargetPos(cap, v, r)
       IN FeedRows(cap, n, d, v + 1, IF pos < 0 THEN res ELSE [res EXCEPT ![pos] = v + 1])

\* the draw sequences possible for n rows: one value of DrawSet per row past
\* the first cap
DrawSeqs(cap, n) ==
  {d \in [cap..(n - 1) -> 0..(n - 1)] : \A v \in cap..(n - 1) : d[v] \in DrawSet(cap, v)}

FinalReservoir(cap, n, d) == FeedRows(cap, n, d, 0, [s \in 0..(cap - 1) |-> 0])

\* ------------------------------------------------------------------ Init
InitCall ==
  /\ pc = "idle"
  /\ num_entries = 0
  /\ object_id = <<>>
  /\ i = 0
  /\ start_num_visited = 0
  /\ num_new_entries = 0
  /\ status = "none"

InitHist ==
  /\ nrows = 0
  /\ firstRow = [k \in KeyUniverse |-> 0]
  /\ admitRow = [k \in KeyUniverse |-> 0]
  /\ dupSeen = FALSE
  /\ absentRows = 0
  /\ draws = 0

\* RESERVOIR empty, NUM_VISITED 0, the map empty. POS_TO_OBJECT is storage the
\* operator never initializes: no entry is assigned, and what an unassigned
\* entry holds is decided when it is first read (OldOids). Line 77 resizes
\* RESERVOIR a second time, never POS_TO_OBJECT: its storage is the caller's,
\* one entry per slot.
InitState ==
  /\ output_dim0 = 0
  /\ output_shape = 0
  /\ output_data = [s \in Slots |-> 0]
  /\ num_visited = 0
  /\ object_to_pos_map = EmptyMap
  /\ pos_to_object = EmptyMap

Init ==
  /\ \/ /\ script = <<>>
        /\ numToCollect \in 1..MaxCapacity
        /\ tracking \in BOOLEAN
        /\ InitState
     \/ /\ script = ScenarioKeys
        /\ numToCollect = 2
        /\ tracking = TRUE
        /\ InitState
  /\ InitCall
  /\ InitHist

\* --------------------------------------------------------------- inputs
\* the object ids in play: those rows may carry
OidValues == IF script = <<>> THEN Keys ELSE KeyUniverse

SeqsUpTo(S, n) == UNION {[1..m -> S] : m \in 0..n}

\* the id vectors the caller may pass to the next call
IdVectors ==
  IF ~tracking THEN {<<>>}
  ELSE IF script = <<>> THEN SeqsUpTo(Keys, Min(MaxBatch, MaxRows - nrows))
  ELSE {SubSeq(script, nrows + 1, nrows + m) : m \in 0..(Len(script) - nrows)}

RowCounts(ids) ==
  IF ~tracking THEN 0..Min(MaxBatch, MaxRows - nrows)
  ELSE {n \in (Len(ids) - 1)..(Len(ids) + 1) :
          n >= 0 /\ (script = <<>> => n <= Min(MaxBatch, MaxRows - nrows))}

\* ------------------------------------------------------------- actions
Return(st) ==
  /\ pc' = "idle"
  /\ num_entries' = 0
  /\ object_id' = <<>>
  /\ i' = 0
  /\ start_num_visited' = 0
  /\ num_new_entries' = 0
  /\ status' = st

\* lines 22-89: the call up to the row loop.
\*   n: rows of DATA, shp: its row shape, ids: OBJECT_ID, nvnd: ndim of NUM_VISITED
Process(n, shp, ids, nvnd) ==
  LET output_initialized == OutputInitialized(output_dim0, output_shape)
      nnew == countNewEntries(tracking, n, ids, object_to_pos_map)
      output_batch_size == IF output_initialized THEN output_dim0 ELSE 0
      dim0 == ResizedDim0(numToCollect, output_batch_size, nnew)
      resized == output_batch_size < numToCollect
  IN
  /\ pc = "idle"
  /\ UNCHANGED <<numToCollect, tracking, output_data, num_visited,
                 object_to_pos_map, pos_to_object, histvars>>
  /\ IF output_initialized /\ output_shape # shp
     THEN \* lines 30-33
          /\ UNCHANGED <<output_dim0, output_shape>>
          /\ Return("RowShapeMismatch")
     ELSE IF n = 0
     THEN \* lines 42-48
          /\ output_shape' = IF output_initialized THEN output_shape ELSE shp
          /\ output_dim0' = IF output_initialized THEN output_dim0 ELSE 0
          /\ Return("ok")
     ELSE \* lines 50-56
          /\ output_dim0' = IF resized THEN dim0 ELSE output_dim0
          /\ output_shape' = IF resized THEN shp ELSE output_shape
          /\ IF nvnd # 0
             THEN Return("CounterNotScalar")        \* line 65
             ELSE IF ~CounterOk(num_visited)
             THEN Return("CounterNegative")         \* line 67
             ELSE IF tracking /\ Len(ids) # n
             THEN Return("SizeMismatch")            \* line 87
             ELSE /\ pc' = "loop"
                  /\ num_entries' = n
                  /\ object_id' = ids
                  /\ i' = 0
                  /\ start_num_visited' = num_visited
                  /\ num_new_entries' = nnew
                  /\ status' = "running"

\* lines 91-133: one iteration of the row loop; r is the value drawn at line 105,
\* old_oid the value read at line 124
RowStep(r, old_oid) ==
  LET oid == IF tracking THEN object_id[i + 1] ELSE 0
      absent == ~(tracking /\ oid \in DOMAIN object_to_pos_map)
      pos == TargetPos(numToCollect, num_visited, r)
      payload == nrows + 1
  IN
  /\ pc = "loop"
  /\ i < num_entries
  /\ UNCHANGED <<numToCollect, tracking, output_dim0, output_shape, script>>
  /\ nrows' = nrows + 1
  /\ firstRow' = IF tracking /\ firstRow[oid] = 0
                 THEN [firstRow EXCEPT ![oid] = payload] ELSE firstRow
  /\ dupSeen' = (dupSeen \/ (tracking /\ firstRow[oid] # 0))
  /\ absentRows' = IF absent THEN absentRows + 1 ELSE absentRows
  /\ IF AlreadyInPool(tracking, object_to_pos_map, oid)
     THEN \* lines 92-96
          /\ r = 0 /\ old_oid = 0
          /\ UNCHANGED <<output_data, num_visited, object_to_pos_map, pos_to_object,
                         admitRow, draws>>
          /\ UNCHANGED <<pc, num_entries, object_id, start_num_visited,
                         num_new_entries, status>>
          /\ i' = i + 1
     ELSE /\ r \in DrawSet(numToCollect, num_visited)
          /\ draws' = IF num_visited < numToCollect THEN draws ELSE draws + 1
          /\ IF pos < 0
             THEN \* lines 112-114
                  /\ old_oid = 0
                  /\ UNCHANGED <<output_data, object_to_pos_map, pos_to_object, admitRow>>
                  /\ IF num_visited >= numToCollect
                     THEN /\ num_visited' = VisitedAfter(num_visited, pos)
                          /\ i' = i + 1
                          /\ UNCHANGED <<pc, num_entries, object_id, start_num_visited,
                                         num_new_entries, status>>
                     ELSE /\ UNCHANGED num_visited
                          /\ Return("EnforceFailed")
             ELSE \* lines 117-129, 132
                  /\ output_data' = [output_data EXCEPT ![pos] = payload]
                  /\ IF tracking
                     THEN /\ old_oid \in OldOids(pos_to_object, pos, OidValues)
                          /\ pos_to_object' = SetOwner(pos_to_object, pos, oid)
                          /\ object_to_pos_map' =
                               BindMap(object_to_pos_map, old_oid, oid, pos)
                          /\ admitRow' = [admitRow EXCEPT ![oid] = payload]
                     ELSE /\ old_oid = 0
                          /\ UNCHANGED <<pos_to_object, object_to_pos_map, admitRow>>
                  /\ num_visited' = VisitedAfter(num_visited, pos)
                  /\ i' = i + 1
                  /\ UNCHANGED <<pc, num_entries, object_id, start_num_visited,
                                 num_new_entries, status>>

\* lines 135-136
SanityCheck ==
  /\ pc = "loop"
  /\ i = num_entries
  /\ UNCHANGED <<opvars, histvars>>
  /\ Return(IF num_visited = start_num_visited + num_new_entries
            THEN "ok" ELSE "InternalConsistencyFault")

DoProcess ==
  \E ids \in IdVectors : \E n \in RowCounts(ids) : \E shp \in Shapes : \E nvnd \in {0, 1} :
    Process(n, shp, ids, nvnd)

DoRowStep == \E r \in 0..MaxRows : \E old_oid \in KeyUniverse : RowStep(r, old_oid)

Next == DoProcess \/ DoRowStep \/ SanityCheck

Spec == Init /\ [][Next]_vars

\* NUM_VISITED is the caller's blob ("should be initialized to 0"): the runs in
\* which the caller may also hand in a negative count.
InitAnyCounter ==
  /\ script = <<>>
  /\ numToCollect \in 1..MaxCapacity
  /\ tracking \in BOOLEAN
  /\ output_dim0 = 0
  /\ output_shape = 0
  /\ output_data = [s \in Slots |-> 0]
  /\ num_visited \in -1..0
  /\ object_to_pos_map = EmptyMap
  /\ pos_to_object = EmptyMap
  /\ InitCall
  /\ InitHist

SpecAnyCounter == InitAnyCounter /\ [][Next]_vars

\* The runs of an operator with room for one more row than MaxCapacity, with
\* key tracking.
InitLarge ==
  /\ script = <<>>
  /\ numToCollect = MaxCapacity + 1
  /\ tracking = TRUE
  /\ InitState
  /\ InitCall
  /\ InitHist

SpecLarge == InitLarge /\ [][Next]_vars

\* ---------------------------------------------------------------- claims
AtRow == pc = "loop" /\ i < num_entries
RowKey == object_id[i + 1]
InMap(k) == k \in DOMAIN object_to_pos_map
Written(s) == output_data[s] # 0

\* C1: with key tracking, after every row step every written slot s has
\* PositionMap[SlotOwners[s]] = s, whatever keys the rows carry.
C1_OwnerMapsBack ==
  tracking => \A s \in Slots :
    Written(s) => /\ s \in DOMAIN pos_to_object
                  /\ InMap(pos_to_object[s])
                  /\ object_to_pos_map[pos_to_object[s]] = s

\* C2: the end-of-batch check holds for every batch that passed validation:
\* num_visited = start_num_visited + the rows new at batch start.
C2_SanityCheckHolds ==
  (pc = "loop" /\ i = num_entries) => num_visited = start_num_visited + num_new_entries

\* C3 as stated: a written slot owned by key k stores the payload of the first
\* row of the whole stream that carried k.
C3_FirstPayloadKept ==
  tracking => \A s \in Slots : Written(s) => output_data[s] = firstRow[pos_to_object[s]]

C3_Inv ==
  tracking => \A k \in DOMAIN object_to_pos_map :
    /\ admitRow[k] # 0
    /\ output_data[object_to_pos_map[k]] = admitRow[k]

C3_Act ==
  (AtRow /\ tracking /\ InMap(RowKey)) => output_data' = output_data

\* C3 (amended): whenever PositionMap holds key k, the slot it maps k to stores
\* the payload of the row that bound k, the last row carrying k that was copied
\* into the reservoir; and a row reached while its key is in PositionMap never
\* has its payload written.
C3_BinderPayloadKept == []C3_Inv /\ [][C3_Act]_vars

\* a key whose first row was discarded, or which left the map, is stored with
\* the payload of a later row
C3_Witness ==
  /\ tracking
  /\ \E k \in DOMAIN object_to_pos_map :
       /\ firstRow[k] # 0
       /\ output_data[object_to_pos_map[k]] # firstRow[k]
       /\ output_data[object_to_pos_map[k]] = admitRow[k]
  /\ nrows > absentRows

\* C4 as stated: with key tracking, VisitCount is the number of distinct keys
\* that have appeared in the stream so far.
C4_CountsDistinctKeys ==
  tracking => num_visited = Cardinality({k \in KeyUniverse : firstRow[k] # 0})

C4_Inv ==
  /\ num_visited = absentRows
  /\ draws = (IF num_visited > numToCollect THEN num_visited - numToCollect ELSE 0)
  /\ (script = ScenarioKeys /\ nrows = Len(ScenarioKeys)) =>
        /\ num_visited \in {4, 5}
        /\ draws = num_visited - 2

C4_Act ==
  AtRow =>
    IF tracking /\ InMap(RowKey)
    THEN num_visited' = num_visited /\ draws' = draws
    ELSE num_visited' = num_visited + 1

\* C4 (amended): VisitCount is the number of rows reached while their key was
\* absent from PositionMap (all rows without key tracking); a row whose key is
\* in PositionMap when it is reached neither increments VisitCount nor causes
\* a draw, every other row increments it by one, and one draw is made per
\* counted row past the first numToCollect. For capacity 2 and keys
\* [1,2,3,2,4] the run ends with VisitCount 4 and two draws, or with
\* VisitCount 5 and three draws.
C4_CountsAbsentRows == []C4_Inv /\ [][C4_Act]_vars

\* the scenario run in which the fourth row is not skipped
C4_Witness ==
  script = ScenarioKeys /\ nrows = Len(ScenarioKeys) /\ num_visited = 5 /\ draws = 3

\* C5: a row whose key is in PositionMap when it is reached changes neither
\* VisitCount, nor any slot, nor PositionMap, nor SlotOwners.
C5_DuplicateChangesNothing ==
  [][(AtRow /\ tracking /\ InMap(RowKey)) =>
       UNCHANGED <<num_visited, output_data, output_dim0, object_to_pos_map,
                   pos_to_object>>]_vars

\* the row just passed was skipped: its key is in the map and the slot holds
\* another row's payload
C5_Witness ==
  /\ tracking /\ pc = "loop" /\ i > 0
  /\ nrows > absentRows
  /\ InMap(object_id[i])
  /\ output_data[object_to_pos_map[object_id[i]]] # nrows
  /\ num_visited = absentRows

\* C6: numToCollect rows with pairwise distinct keys, from the empty state:
\* the reservoir has numToCollect rows, slot s holds the (s+1)-th row and its
\* key, VisitCount = numToCollect and no draw was made.
C6_FillsInArrivalOrder ==
  (~dupSeen /\ nrows = numToCollect) =>
     /\ output_dim0 = numToCollect
     /\ num_visited = numToCollect
     /\ draws = 0
     /\ \A s \in Slots :
          /\ output_data[s] = s + 1
          /\ tracking => firstRow[pos_to_object[s]] = s + 1

C6_Witness ==
  /\ tracking /\ ~dupSeen /\ nrows = numToCollect /\ numToCollect = MaxCapacity
  /\ pc = "idle" /\ status = "ok"

C7_Inv ==
  /\ 0 <= output_dim0 /\ output_dim0 <= numToCollect
  /\ (~dupSeen /\ nrows > numToCollect) =>
        output_dim0 = numToCollect /\ num_visited = nrows

\* C7: after numToCollect + k rows (k > 0) with pairwise distinct keys the
\* reservoir has exactly numToCollect rows and VisitCount = numToCollect + k;
\* always 0 <= rows of the reservoir <= numToCollect, and they never decrease.
C7_SizeBounded == []C7_Inv /\ [][output_dim0' >= output_dim0]_vars

C7_Witness ==
  /\ ~dupSeen /\ nrows > numToCollect /\ pc = "idle" /\ status = "ok"
  /\ output_dim0 = numToCollect

\* C8: when a row with key k2 replaces slot p owned by k1 # k2, afterwards
\* lookup(k2) = p, k1 is absent, SlotOwners[p] = k2 and every other key's entry
\* is unchanged.
C8_ReplaceRebinds ==
  [][(AtRow /\ tracking /\ ~InMap(RowKey) /\ num_visited >= numToCollect) =>
       \A p \in Slots :
         (output_data'[p] # output_data[p] /\ pos_to_object[p] # RowKey) =>
            LET k1 == pos_to_object[p]
                k2 == RowKey
            IN /\ k2 \in DOMAIN object_to_pos_map' /\ object_to_pos_map'[k2] = p
               /\ k1 \notin DOMAIN object_to_pos_map'
               /\ pos_to_object'[p] = k2
               /\ \A k \in KeyUniverse \ {k1, k2} :
                    /\ (k \in DOMAIN object_to_pos_map') = InMap(k)
                    /\ InMap(k) => object_to_pos_map'[k] = object_to_pos_map[k]]_vars

\* the last row replaced a slot: its key is bound there and a key admitted
\* earlier is gone from the map
C8_Witness ==
  /\ tracking /\ absentRows > numToCollect
  /\ \E s \in Slots :
       /\ output_data[s] = nrows
       /\ InMap(pos_to_object[s]) /\ object_to_pos_map[pos_to_object[s]] = s
  /\ \E k1 \in KeyUniverse : admitRow[k1] # 0 /\ ~InMap(k1)
  /\ Cardinality(DOMAIN object_to_pos_map) = numToCollect

\* C9: an append (VisitCount < numToCollect, the slot never bound before)
\* removes no entry from PositionMap.
C9_AppendErasesNothing ==
  [][(AtRow /\ tracking /\ ~InMap(RowKey) /\ num_visited < numToCollect) =>
       \A k \in DOMAIN object_to_pos_map :
         /\ k \in DOMAIN object_to_pos_map'
         /\ object_to_pos_map'[k] = object_to_pos_map[k]]_vars

\* C10: a call that fails validation (id vector length, VisitCount not a scalar,
\* VisitCount < 0) changes nothing.
C10_FailedCallChangesNothing ==
  [][(pc = "idle" /\ status' \in {"SizeMismatch", "CounterNotScalar", "CounterNegative"}) =>
       UNCHANGED <<output_dim0, output_data, num_visited, object_to_pos_map,
                   pos_to_object>>]_vars

Errors == {"RowShapeMismatch", "CounterNotScalar", "CounterNegative", "SizeMismatch",
           "InternalConsistencyFault", "EnforceFailed"}

\* C11 as stated: no call made while VisitCount is negative returns success.
C11_NegativeAlwaysFails ==
  [][(pc = "idle" /\ num_visited < 0) => status' \in Errors]_vars

\* C11 (amended): every call with at least one row made while VisitCount is
\* negative fails with an error before the row loop; a call with zero rows
\* returns success (or fails the row shape test) without testing VisitCount.
C11_NegativeFailsUnlessEmpty ==
  (pc = "idle" /\ num_visited < 0) =>
    \A ids \in IdVectors : \A n \in RowCounts(ids) : \A shp \in Shapes :
      \A nvnd \in {0, 1} :
        ~ENABLED (/\ Process(n, shp, ids, nvnd)
                  /\ ~(/\ pc' = "idle"
                       /\ n > 0 => status' \in Errors
                       /\ n = 0 => status' \in {"ok", "RowShapeMismatch"}
                       /\ num_visited' = num_visited))

\* a call with rows has failed on the negative count
C11_Witness ==
  pc = "idle" /\ num_visited < 0 /\ status = "CounterNegative"

\* C12: a call with zero rows leaves the rows of the reservoir, every slot,
\* VisitCount, PositionMap and SlotOwners unchanged in every state (on a
\* never-initialized reservoir: zero rows, VisitCount 0); all it may change is
\* the row shape of a reservoir with zero rows, which the next call with rows
\* does not read: the call that follows a successful empty call on a reservoir
\* with zero rows never fails the row shape test and takes the row shape of
\* its own input.
C12_EmptyBatchIsNoOp ==
  [][pc = "idle" =>
       /\ \/ /\ pc' = "idle"
             /\ UNCHANGED <<output_dim0, output_data, num_visited,
                            object_to_pos_map, pos_to_object>>
             /\ output_dim0 > 0 => output_shape' = output_shape
          \/ \A shp \in Shapes : ~Process(0, shp, <<>>, 0)
       /\ (output_dim0 = 0 /\ status = "ok") =>
            \A ids \in IdVectors : \A n \in RowCounts(ids) \ {0} : \A shp \in Shapes :
              \A nvnd \in {0, 1} :
                Process(n, shp, ids, nvnd) =>
                  /\ status' # "RowShapeMismatch"
                  /\ output_shape' = shp]_vars

\* an empty batch was processed on the never-initialized reservoir
C12_Witness ==
  /\ pc = "idle" /\ status = "ok"
  /\ output_dim0 = 0 /\ output_shape # 0
  /\ num_visited = 0 /\ nrows = 0

\* C13: VisitCount never decreases; a row that is not skipped increments it by
\* exactly one, whether the row is appended, replaces a slot or is discarded,
\* and no other step changes it.
C13_CountStepsByOne ==
  [][/\ num_visited' >= num_visited
     /\ (AtRow /\ ~(tracking /\ InMap(RowKey))) => num_visited' = num_visited + 1
     /\ num_visited' # num_visited => (AtRow /\ ~(tracking /\ InMap(RowKey)))]_vars

\* the last row was discarded and counted
C13_Witness ==
  /\ pc = "loop" /\ i > 0
  /\ num_visited > numToCollect
  /\ num_visited = absentRows
  /\ \A s \in Slots : output_data[s] # nrows
  /\ tracking => ~InMap(object_id[i])

Max(a, b) == IF a > b THEN a ELSE b
Holds(res, j) == \E s \in DOMAIN res : res[s] = j

\* for cap slots and n rows: the number of draw sequences after which row j is
\* in the reservoir, times n, is cap times the number of draw sequences
UniformFor(cap, n) ==
  LET seqs == DrawSeqs(cap, n)
  IN \A j \in 1..n :
       Cardinality({d \in seqs : Holds(FinalReservoir(cap, n, d), j)}) * n
         = cap * Cardinality(seqs)

UniformTable ==
  [cap \in 1..MaxCapacity, n \in 1..Max(MaxRows, Len(ScenarioKeys)) |->
     n > cap => UniformFor(cap, n)]

ReservoirTable ==
  [cap \in 1..MaxCapacity, n \in 1..Max(MaxRows, Len(ScenarioKeys)) |->
     {FinalReservoir(cap, n, d) : d \in DrawSeqs(cap, n)}]

\* C15: after n > numToCollect rows with pairwise distinct keys, whatever the
\* batching, the reservoir is the one the draws made so far give, and over all
\* draw sequences possible for n rows each row j is in the reservoir in the
\* fraction numToCollect / n of them.
C15_UniformInclusion ==
  (~dupSeen /\ nrows > numToCollect) =>
     /\ output_data \in ReservoirTable[numToCollect, nrows]
     /\ UniformTable[numToCollect, nrows]

\* all rows of the longest stream were fed, and the last one was kept
C15_Witness ==
  /\ ~dupSeen /\ nrows = MaxRows /\ nrows > numToCollect
  /\ pc = "idle" /\ status = "ok"
  /\ \E s \in Slots : output_data[s] = nrows

C16_Act ==
  (AtRow /\ ~(tracking /\ InMap(RowKey))) =>
    LET v == num_visited
        payload == nrows + 1
    IN IF v < numToCollect
       THEN /\ output_data' = [output_data EXCEPT ![v] = payload]
            /\ draws' = draws
       ELSE /\ draws' = draws + 1
            /\ \E r \in 0..v :
                 IF r < numToCollect
                 THEN output_data' = [output_data EXCEPT ![r] = payload]
                 ELSE output_data' = output_data

\* C16: a row that is not skipped, reached at count v: if v < numToCollect it
\* is copied into slot v and no draw is made; otherwise one draw r in [0, v] is
\* made and the row is copied into slot r when r < numToCollect, and nothing is
\* written otherwise. The enforce on the discard branch never fails.
C16_AppendReplaceDiscard == [](status # "EnforceFailed") /\ [][C16_Act]_vars

\* the last row was copied into a slot chosen by a draw
C16_Witness ==
  /\ pc = "loop" /\ i > 0
  /\ draws > 0 /\ absentRows > numToCollect
  /\ \E s \in Slots : output_data[s] = nrows

\* C17: every block write of a row step lands in a slot below the number of
\* rows the up-front resize of that call gave the reservoir.
C17_WritesInsideOccupied ==
  [][AtRow => \A p \in Slots :
       output_data'[p] # output_data[p] => (0 <= p /\ p < output_dim0)]_vars

\* C18: between calls, after a success or a failure, the rows of the reservoir
\* are min(numToCollect, VisitCount).
C18_SizeIsMinOfCapAndCount ==
  pc = "idle" => output_dim0 = Min(numToCollect, num_visited)

\* C19: with key tracking, every PositionMap entry k -> s has
\* 0 <= s < rows of the reservoir and SlotOwners[s] = k; so no two keys share a
\* slot and the map has at most numToCollect entries.
C19_MapInsideOccupied ==
  tracking =>
    /\ \A k \in DOMAIN object_to_pos_map :
         LET s == object_to_pos_map[k]
         IN /\ 0 <= s /\ s < output_dim0
            /\ s \in DOMAIN pos_to_object /\ pos_to_object[s] = k
    /\ \A k1, k2 \in DOMAIN object_to_pos_map :
         object_to_pos_map[k1] = object_to_pos_map[k2] => k1 = k2
    /\ Cardinality(DOMAIN object_to_pos_map) <= numToCollect

====
